---- MODULE Spec2Model ----
(***************************************************************************)
(* A model of grep_sources.py: the walk over the root paths (add_file,     *)
(* add_directory), the ordering of the registry by modification time and  *)
(* the sequential dispatch of the external search (run_grep, main).       *)
(*                                                                         *)
(* Spec is a run over a tree that another process may change during the   *)
(* walk, SpecRerun two runs over an unchanged tree, SpecPolicy a run over  *)
(* the roots that exercise the exclusion by name.                          *)
(*                                                                         *)
(* A file or directory name is a sequence of tokens in which every "."    *)
(* is a token of its own ("a.py" is <<"a", ".", "py">>), so that          *)
(* startswith(".") and endswith(".py") are computed on the name.  A path  *)
(* is the sequence of the names that "/" separates.                       *)
(***************************************************************************)
EXTENDS Integers, Sequences, FiniteSets, TLC

\* ------------------------------------------------------------------ bounds
MaxRoots == 2       \* longest list of root paths
MaxTime == 2        \* modification times are drawn from 1..MaxTime
MaxVanish == 1      \* entries deleted by another process during one walk
MaxModify == 1      \* files written to by another process during one walk

\* ------------------------------------------------------- the file system
N_proj == <<"proj">>
N_src == <<"src">>
N_git == <<".", "git">>
N_alias == <<"alias">>
N_link == <<"link">>
N_disk2 == <<"disk2">>
N_lib == <<"lib">>
N_dot == <<".">>
N_missing == <<"missing">>
N_a == <<"a", ".", "py">>
N_b == <<"b", ".", "py">>
N_notes == <<"notes", ".", "txt">>
N_x == <<"x", ".", "py">>
N_c == <<"c", ".", "js">>
N_dotdot == <<".", ".">>
N_root == <<"root">>
N_vendor == <<"vendor">>
N_node_modules == <<"node_modules">>
N_opt == <<"opt">>
N_gcs == <<"google-cloud-sdk">>
N_conda == <<"conda">>
N_condabin == <<"condabin">>
N_bin == <<"bin">>
N_conda_meta == <<"conda-meta">>
N_hooks == <<"hooks">>
N_work == <<"work">>
N_g == <<"g", ".", "py">>
N_e == <<"e", ".", "py">>
N_h == <<"h", ".", "py">>

\* Physical directories and physical files.
PhysDirs ==
    { "Dproj", "Dsrc", "Dgit", "Dhooks", "Ddisk", "Dlib",
      "Dparent", "Dcwd", "Droot", "Drgit", "Drsrc", "Dvendor", "Dnm",
      "Dopt", "Dgcs", "Dconda", "Dcondabin", "Dbin", "Dcondameta" }
PhysFiles == {"a", "b", "notes", "x", "c", "h", "rx", "ra", "rb", "rc", "g", "e"}

\* st_dev of a physical directory: proj and disk2 are the roots of two
\* file systems, mounted in the working directory, which is on a third.
Dev(d) ==
    IF d \in {"Ddisk", "Dlib"} THEN 2
    ELSE IF d \in {"Dproj", "Dsrc", "Dgit", "Dhooks"} THEN 1
    ELSE 3

\* st_ino of a physical directory (os.stat(directory).st_ino).  Inode
\* numbers are unique per device only: both file-system roots have inode 2.
Ino(d) ==
    CASE d = "Dproj" -> 2
      [] d = "Dsrc" -> 11
      [] d = "Dgit" -> 12
      [] d = "Ddisk" -> 2
      [] d = "Dlib" -> 11
      [] d = "Dhooks" -> 15
      [] d = "Dparent" -> 60
      [] d = "Dcwd" -> 61
      [] d = "Droot" -> 30
      [] d = "Drgit" -> 31
      [] d = "Drsrc" -> 32
      [] d = "Dvendor" -> 33
      [] d = "Dnm" -> 34
      [] d = "Dopt" -> 40
      [] d = "Dgcs" -> 41
      [] d = "Dconda" -> 42
      [] d = "Dcondabin" -> 43
      [] d = "Dbin" -> 44
      [] d = "Dcondameta" -> 45

\* The identity of a physical directory: device id and inode number.
PhysicalIdentity(d) == <<Dev(d), Ino(d)>>

\* The directory that holds a physical file.
FileDir(f) ==
    CASE f \in {"a", "b"} -> "Dsrc"
      [] f \in {"x", "notes"} -> "Dgit"
      [] f = "c" -> "Dlib"
      [] f = "h" -> "Dhooks"
      [] f = "rx" -> "Drgit"
      [] f \in {"ra", "rb"} -> "Drsrc"
      [] f = "rc" -> "Dnm"
      [] f = "g" -> "Dgcs"
      [] f = "e" -> "Dconda"

DirEnt(n, k, i, t) == [name |-> n, kind |-> k, ino |-> i, target |-> t]

\* What os.scandir lists in a physical directory, in listing order.  ino is
\* DirEntry.inode(), the d_ino of the directory entry: for the mount point
\* proj/alias (a bind mount of proj/src) it is the inode of the covered
\* directory (13), not the inode of the directory mounted there (11).
Entries(d) ==
    CASE d = "Dproj" -> << DirEnt(N_git, "dir", 12, "Dgit"),
                           DirEnt(N_src, "dir", 11, "Dsrc"),
                           DirEnt(N_alias, "dir", 13, "Dsrc"),
                           DirEnt(N_link, "symlink", 14, "Dproj") >>
      [] d = "Dsrc" -> << DirEnt(N_a, "file", 21, "a"),
                          DirEnt(N_b, "file", 22, "b") >>
      [] d = "Dgit" -> << DirEnt(N_x, "file", 24, "x"),
                          DirEnt(N_notes, "file", 23, "notes"),
                          DirEnt(N_hooks, "dir", 15, "Dhooks") >>
      [] d = "Dhooks" -> << DirEnt(N_h, "file", 26, "h") >>
      [] d = "Ddisk" -> << DirEnt(N_lib, "dir", 11, "Dlib") >>
      [] d = "Dlib" -> << DirEnt(N_c, "file", 25, "c") >>
      [] d = "Dparent" -> << DirEnt(N_work, "dir", 61, "Dcwd") >>
      [] d = "Dcwd" -> << DirEnt(N_proj, "dir", 62, "Dproj"),
                          DirEnt(N_disk2, "dir", 63, "Ddisk"),
                          DirEnt(N_root, "dir", 30, "Droot"),
                          DirEnt(N_opt, "dir", 40, "Dopt") >>
      [] d = "Droot" -> << DirEnt(N_git, "dir", 31, "Drgit"),
                           DirEnt(N_src, "dir", 32, "Drsrc"),
                           DirEnt(N_vendor, "dir", 33, "Dvendor") >>
      [] d = "Drgit" -> << DirEnt(N_x, "file", 35, "rx") >>
      [] d = "Drsrc" -> << DirEnt(N_a, "file", 36, "ra"),
                           DirEnt(N_b, "file", 37, "rb") >>
      [] d = "Dvendor" -> << DirEnt(N_node_modules, "dir", 34, "Dnm") >>
      [] d = "Dnm" -> << DirEnt(N_c, "file", 38, "rc") >>
      [] d = "Dopt" -> << DirEnt(N_gcs, "dir", 41, "Dgcs"),
                          DirEnt(N_conda, "dir", 42, "Dconda") >>
      [] d = "Dgcs" -> << DirEnt(N_g, "file", 46, "g") >>
      [] d = "Dconda" -> << DirEnt(N_condabin, "dir", 43, "Dcondabin"),
                            DirEnt(N_bin, "dir", 44, "Dbin"),
                            DirEnt(N_conda_meta, "dir", 45, "Dcondameta"),
                            DirEnt(N_e, "file", 47, "e") >>
      [] OTHER -> << >>

\* The root paths a run may be given, relative to the working directory
\* (which holds proj, disk2, root and opt), and what each resolves to.
RootPaths ==
    { <<N_proj>>, <<N_proj, N_src, N_dot>>, <<N_proj, N_src>>,
      <<N_proj, N_git, N_notes>>, <<N_disk2>>, <<N_missing>> }

\* The root paths of the runs that exercise the exclusion by name: the
\* tree root, two excluded directories of it, the working directory and
\* its parent, a directory inside the hidden directory proj/.git, the
\* symbolic link proj/link (to proj), and opt, which holds a
\* google-cloud-sdk directory and an anaconda distribution.
PolicyRootPaths ==
    { <<N_root>>, <<N_root, N_vendor, N_node_modules>>, <<N_root, N_git>>,
      <<N_dot>>, <<N_dotdot>>, <<N_proj, N_git, N_hooks>>, <<N_proj, N_link>>,
      <<N_opt>> }

RootLookup(p) ==
    CASE p = <<N_proj>> -> [kind |-> "dir", target |-> "Dproj"]
      [] p = <<N_root>> -> [kind |-> "dir", target |-> "Droot"]
      [] p = <<N_root, N_vendor, N_node_modules>> -> [kind |-> "dir", target |-> "Dnm"]
      [] p = <<N_root, N_git>> -> [kind |-> "dir", target |-> "Drgit"]
      [] p = <<N_dot>> -> [kind |-> "dir", target |-> "Dcwd"]
      [] p = <<N_dotdot>> -> [kind |-> "dir", target |-> "Dparent"]
      [] p = <<N_proj, N_git, N_hooks>> -> [kind |-> "dir", target |-> "Dhooks"]
      [] p = <<N_proj, N_link>> -> [kind |-> "dir", target |-> "Dproj"]
      [] p = <<N_opt>> -> [kind |-> "dir", target |-> "Dopt"]
      [] p = <<N_proj, N_src, N_dot>> -> [kind |-> "dir", target |-> "Dsrc"]
      [] p = <<N_proj, N_src>> -> [kind |-> "dir", target |-> "Dsrc"]
      [] p = <<N_proj, N_git, N_notes>> -> [kind |-> "file", target |-> "notes"]
      [] p = <<N_disk2>> -> [kind |-> "dir", target |-> "Ddisk"]
      [] OTHER -> [kind |-> "none", target |-> "none"]

\* Access faults of the tree, one per run: a directory that cannot be
\* listed, a directory that can be listed but not searched (its children
\* cannot be stat-ed), an entry whose classification is denied, a file that
\* can be stat-ed but not read.
NoFault == [kind |-> "none", on |-> "none"]
Faults ==
    { NoFault,
      [kind |-> "noscan", on |-> "Dsrc"],
      [kind |-> "nosearch", on |-> "Dsrc"],
      [kind |-> "nosearch", on |-> "Dgit"],
      [kind |-> "noclassify", on |-> "b"],
      [kind |-> "noread", on |-> "b"] }

\* Entries another process may delete while the walk is running.
VanishCandidates == {"a", "Dlib"}

\* Files another process may write to while the walk is running.
ModifyCandidates == {"notes"}

VARIABLES
    roots,               \* args.files_and_directories
    mtime,               \* modification time of each physical file
    fault,               \* the access fault of the tree
    vanished,            \* physical files and directories deleted so far
    modified,            \* physical files written to since the run began
    pc,                  \* "walk", "dispatch", "done" or "aborted"
    ri,                  \* index of the next root path of the loop in main
    stack,               \* the add_directory calls in progress
    file_modtimes,       \* the registry, in insertion order
    canonicals,          \* the inode numbers recorded as visited
    permission_errors,   \* the paths recorded as permission failures
    filenames_to_search, \* the dispatch order
    searched,            \* the files run_grep was invoked on, in order
    di,                  \* index of the next file of the dispatch loop
    printed,             \* the result blocks printed, in order
    toolFailedAt,        \* position of the first failed external search
    err,                 \* the uncaught exception that ended the run
    exitcode,            \* the exit status of the process
    enumerated,          \* the physical directories listed, in order
    marked,              \* the physical directories recorded as visited
    skips,               \* the directories skipped as already visited
    denied,              \* the paths whose listing raised PermissionError
    run,                 \* number of the run
    firstList            \* the dispatch order of the previous run

vars == << roots, mtime, fault, vanished, modified, pc, ri, stack, file_modtimes,
           canonicals, permission_errors, filenames_to_search, searched, di,
           printed, toolFailedAt, err, exitcode, enumerated, marked,
           skips, denied, run, firstList >>

inputs == << roots, mtime, fault >>
env == << vanished, modified >>
dirState ==
    << stack, canonicals, permission_errors, enumerated, marked, skips, denied >>
dispatchState == << filenames_to_search, searched, di, printed, toolFailedAt >>
runState == << run, firstList >>
control == << pc, err, exitcode >>

\* --------------------------------------------------------------- helpers
Range(s) == { s[i] : i \in DOMAIN s }

\* str.startswith(".") on a name.
startswith_dot(name) == Len(name) > 0 /\ name[1] = "."

\* str.endswith(suffix) on a name.
endswith(name, suffix) ==
    /\ Len(name) >= Len(suffix)
    /\ SubSeq(name, Len(name) - Len(suffix) + 1, Len(name)) = suffix

\* directory.endswith("/" + name) on a path: the last component is name
\* and a "/" stands before it.
path_endswith(path, name) == Len(path) >= 2 /\ path[Len(path)] = name

\* os.path.basename: what follows the last "/".
basename(path) == path[Len(path)]

\* os.path.join(directory, name).
join(directory, name) == Append(directory, name)

required_suffixes ==
    { <<".", "c">>, <<".", "h">>, <<".", "c++">>, <<".", "h++">>,
      <<".", "cpp">>, <<".", "hpp">>, <<".", "js">>, <<".", "ts">>,
      <<".", "html">>, <<".", "rb">>, <<".", "py">>, <<".", "ipynb">> }

\* file.endswith(required_suffixes)
has_required_suffix(name) == \E s \in required_suffixes : endswith(name, s)

\* The defaults of the --skip-* options.
skip_anaconda_dirs == TRUE
skip_node_module_dirs == TRUE
skip_google_cloud_sdk_dirs == TRUE
skip_dotdirs == TRUE

\* The physical file or directory that the path names, resolved from the
\* physical directory phys as the operating system resolves it: "." is the
\* directory itself, and a symbolic link is followed.
RECURSIVE Resolve(_, _)
Resolve(phys, path) ==
    IF path = <<>> THEN phys
    ELSE IF Head(path) = N_dot THEN Resolve(phys, Tail(path))
    ELSE Resolve((CHOOSE e \in Range(Entries(phys)) : e.name = Head(path)).target,
                 Tail(path))

\* The physical file a path of the registry names.
FileAt(path) == Resolve("Dcwd", path)

FileExists(f) == f \notin vanished /\ FileDir(f) \notin vanished
DirExists(d) == d \notin vanished

\* os.scandir raises PermissionError on a directory without read permission.
ScanDenied(d) == fault = [kind |-> "noscan", on |-> d]
\* os.stat of a child raises PermissionError in a directory without search
\* permission.
StatDenied(f) == fault = [kind |-> "nosearch", on |-> FileDir(f)]
\* DirEntry.is_symlink()/is_dir()/is_file() raise PermissionError.
ClassifyDenied(e) == fault = [kind |-> "noclassify", on |-> e.target]
\* The search tool cannot open the file.
Unreadable(f) == fault = [kind |-> "noread", on |-> f]

\* os.path.isfile and os.path.isdir of a root path: both are False when
\* the path cannot be stat-ed.
isfile(p) ==
    /\ RootLookup(p).kind = "file"
    /\ FileExists(RootLookup(p).target)
    /\ ~StatDenied(RootLookup(p).target)
isdir(p) == RootLookup(p).kind = "dir" /\ DirExists(RootLookup(p).target)

\* An uncaught exception ends the process with exit status 1.
Raise(kind, on) ==
    /\ pc' = "aborted"
    /\ err' = [kind |-> kind, on |-> on]
    /\ exitcode' = 1

NoErr == [kind |-> "none", on |-> <<>>]

\* ------------------------------------------------------------- operations
Frame(directory, phys, files, dirs) ==
    [directory |-> directory, phys |-> phys, files |-> files, dirs |-> dirs]

\* file_modtimes[filename] = t on a dict that keeps its insertion order: a
\* key that is present keeps its place.
dict_set(d, filename, t) ==
    IF \E i \in DOMAIN d : d[i].path = filename
    THEN [ i \in DOMAIN d |->
             IF d[i].path = filename THEN [path |-> filename, mtime |-> t] ELSE d[i] ]
    ELSE Append(d, [path |-> filename, mtime |-> t])

Keys(d) == [ i \in DOMAIN d |-> d[i].path ]
Registered == { file_modtimes[i].path : i \in DOMAIN file_modtimes }
ModtimeOf(filename) ==
    (CHOOSE r \in Range(file_modtimes) : r.path = filename).mtime

\* add_file as it would be if the allow-list of suffixes were applied to
\* every file, the files named as roots included.
add_file_filtered(filename, f) ==
    IF ~FileExists(f)
    THEN /\ Raise("FileNotFoundError", filename)
         /\ UNCHANGED << file_modtimes, permission_errors >>
    ELSE IF StatDenied(f)
    THEN /\ permission_errors' = permission_errors \cup {filename}
         /\ UNCHANGED << file_modtimes, control >>
    ELSE /\ file_modtimes' =
               IF has_required_suffix(basename(filename))
               THEN dict_set(file_modtimes, filename, mtime[f])
               ELSE file_modtimes
         /\ UNCHANGED << permission_errors, control >>

\* add_file(filename), filename naming the physical file f.
add_file(filename, f) ==
    IF ~FileExists(f)
    THEN \* os.path.getmtime raises FileNotFoundError, which nothing catches
         /\ Raise("FileNotFoundError", filename)
         /\ UNCHANGED << file_modtimes, permission_errors >>
    ELSE IF StatDenied(f)
    THEN /\ permission_errors' = permission_errors \cup {filename}
         /\ UNCHANGED << file_modtimes, control >>
    ELSE /\ file_modtimes' = dict_set(file_modtimes, filename, mtime[f])
         /\ UNCHANGED << permission_errors, control >>

\* The exclusion by name as it would be with the test of the hidden
\* directories alone.
skipped_by_name_dot_only(directory) ==
    skip_dotdirs /\ startswith_dot(basename(directory))

\* The exclusion by name as it would be without the test of the hidden
\* directories.
skipped_by_name_without_dotdirs(directory) ==
    \/ path_endswith(directory, <<"node_modules">>) /\ skip_node_module_dirs
    \/ path_endswith(directory, <<"google-cloud-sdk">>) /\ skip_google_cloud_sdk_dirs

\* The exclusion by name of add_directory.
skipped_by_name(directory) ==
    \/ path_endswith(directory, <<"node_modules">>) /\ skip_node_module_dirs
    \/ skip_dotdirs /\ startswith_dot(basename(directory))
    \/ path_endswith(directory, <<"google-cloud-sdk">>) /\ skip_google_cloud_sdk_dirs

\* list(os.scandir(directory)) of a directory that exists and can be read.
scandir(phys) == SelectSeq(Entries(phys), LAMBDA e : e.target \notin vanished)

\* The classification loop: dirs, in listing order.
classify_dirs(entries) ==
    SelectSeq(entries, LAMBDA e : ~ClassifyDenied(e) /\ e.kind = "dir")

\* The classification loop: files.
classify_files(entries) ==
    { e \in Range(entries) : ~ClassifyDenied(e) /\ e.kind = "file" }

\* The classification loop: the children it records as permission failures.
classify_errors(directory, entries) ==
    { join(directory, e.name) : e \in { x \in Range(entries) : ClassifyDenied(x) } }

\* The signature of an anaconda distribution among the child directories.
is_anaconda(dirs) ==
    /\ skip_anaconda_dirs
    /\ {<<"condabin">>, <<"bin">>, <<"conda-meta">>}
           \subseteq { dirs[i].name : i \in DOMAIN dirs }

\* The handler of the PermissionError of os.scandir as it would be if it
\* recorded nothing.
scandir_denied_silent(directory) == {}

\* The handler of the PermissionError of os.scandir: the paths it records.
scandir_denied(directory) == {directory}

\* add_directory(directory, inode) up to its two loops, on the physical
\* directory phys that the path names; inode 0 stands for None.  stk is
\* the stack of the caller.  When the call goes on to its loops it becomes
\* the top frame of the stack.
add_directory(directory, phys, inodeArg, stk) ==
    LET inode == IF inodeArg = 0 THEN Ino(phys) ELSE inodeArg
        entries == scandir(phys)
        dirs == classify_dirs(entries)
    IN
    IF inode \in canonicals
    THEN /\ skips' = skips \cup
              { [ phys |-> phys,
                  known |-> \E m \in marked :
                               PhysicalIdentity(m) = PhysicalIdentity(phys) ] }
         /\ stack' = stk
         /\ UNCHANGED << canonicals, marked, permission_errors, enumerated,
                         denied, control >>
    ELSE
      /\ canonicals' = canonicals \cup {inode}
      /\ marked' = marked \cup {phys}
      /\ skips' = skips
      /\ IF skipped_by_name(directory)
         THEN /\ stack' = stk
              /\ UNCHANGED << permission_errors, enumerated, denied, control >>
         ELSE IF ~DirExists(phys)
         THEN \* os.scandir raises FileNotFoundError, which nothing catches
              /\ Raise("FileNotFoundError", directory)
              /\ stack' = stk
              /\ UNCHANGED << permission_errors, enumerated, denied >>
         ELSE IF ScanDenied(phys)
         THEN /\ permission_errors' =
                     permission_errors \cup scandir_denied(directory)
              /\ denied' = denied \cup {directory}
              /\ stack' = stk
              /\ UNCHANGED << enumerated, control >>
         ELSE
              /\ enumerated' = Append(enumerated, phys)
              /\ permission_errors' =
                     permission_errors \cup classify_errors(directory, entries)
              /\ stack' = IF is_anaconda(dirs)
                          THEN stk
                          ELSE Append(stk, Frame(directory, phys,
                                                 classify_files(entries), dirs))
              /\ UNCHANGED << denied, control >>

\* sorted(keys, key=..., reverse=True): a stable sort, so that keys of equal
\* modification time keep the order they have in the dict.
RECURSIVE insert_desc(_, _)
insert_desc(sorted, r) ==
    IF sorted = <<>> THEN <<r>>
    ELSE IF Head(sorted).mtime >= r.mtime
         THEN <<Head(sorted)>> \o insert_desc(Tail(sorted), r)
         ELSE <<r>> \o sorted

\* sorted as it would be without reverse=True: ascending.
RECURSIVE insert_asc(_, _)
insert_asc(sorted, r) ==
    IF sorted = <<>> THEN <<r>>
    ELSE IF Head(sorted).mtime <= r.mtime
         THEN <<Head(sorted)>> \o insert_asc(Tail(sorted), r)
         ELSE <<r>> \o sorted

RECURSIVE sorted_asc(_)
sorted_asc(d) ==
    IF d = <<>> THEN <<>>
    ELSE insert_asc(sorted_asc(SubSeq(d, 1, Len(d) - 1)), d[Len(d)])

RECURSIVE sorted_desc(_)
sorted_desc(d) ==
    IF d = <<>> THEN <<>>
    ELSE insert_desc(sorted_desc(SubSeq(d, 1, Len(d) - 1)), d[Len(d)])

\* A line of text: its length, and how many of its characters are leading
\* white space (lead = len for an empty or blank line).  The lines of the
\* tree have no trailing white space.
Line(lead, len) == [lead |-> lead, len |-> len]

\* The lines of a physical file that the pattern selects, in file order
\* (a pattern such as "x*" selects every line, the empty ones included).
MatchingLines(f) ==
    CASE f = "a" -> << Line(4, 20), Line(0, 16), Line(0, 16), Line(0, 16),
                       Line(0, 16), Line(0, 16), Line(0, 16) >>
      [] f = "c" -> << Line(0, 0), Line(0, 10), Line(0, 0) >>
      [] f = "notes" -> << Line(0, 100) >>
      [] f = "x" -> << Line(0, 16) >>
      [] f = "ra" -> << Line(10, 100) >>
      [] f = "rb" -> << Line(0, 95), Line(4, 96) >>
      [] f = "h" -> << Line(0, 16) >>
      [] OTHER -> <<>>

\* --max-lines
max_lines == 5

\* What "grep -m max_lines" writes to standard output: the first max_lines
\* of the selected lines.
grep_stdout(f) ==
    SubSeq(MatchingLines(f), 1,
           IF Len(MatchingLines(f)) < max_lines THEN Len(MatchingLines(f))
           ELSE max_lines)

\* str.strip() of the output: the white space at its start goes, and with
\* it the leading blank lines and the indentation of the first line that
\* is not blank; so do the trailing blank lines.
strip(out) ==
    LET text == { i \in DOMAIN out : out[i].lead < out[i].len } IN
    IF text = {} THEN <<>>
    ELSE LET first == CHOOSE i \in text : \A j \in text : i <= j
             last == CHOOSE i \in text : \A j \in text : j <= i
         IN  [ i \in 1..(last - first + 1) |->
                 IF i = 1
                 THEN Line(0, out[first].len - out[first].lead)
                 ELSE out[first + i - 1] ]

\* The width at which main cuts a line.
display_width == 95

\* A line as main prints it after the four spaces: cut is TRUE when only
\* its first display_width characters are printed, followed by "...".
Rendered(lead, len, cut) == [lead |-> lead, len |-> len, cut |-> cut]
render_line(line) ==
    IF line.len > display_width
    THEN Rendered(IF line.lead < display_width THEN line.lead ELSE display_width,
                  display_width, TRUE)
    ELSE Rendered(line.lead, line.len, FALSE)

\* for line in out.split("\n")
render(out) == [ i \in DOMAIN out |-> render_line(out[i]) ]

\* What the external search of one file can end as: whether the process
\* could be started, its exit status, whether it wrote to standard error,
\* and the lines it wrote to standard output.
Outcome(l, r, e, o) == [launched |-> l, ret |-> r, err |-> e, out |-> o]
GrepOutcomes(f) ==
    IF ~FileExists(f) \/ Unreadable(f)
    THEN { Outcome(TRUE, 2, TRUE, <<>>) }    \* "No such file", "Permission denied"
    ELSE LET out == grep_stdout(f)
             ret == IF out = <<>> THEN 1 ELSE 0
         IN  { Outcome(TRUE, ret, FALSE, out),   \* lines selected, or none
               Outcome(TRUE, ret, TRUE, out),    \* the same, and a warning
               Outcome(TRUE, 2, TRUE, <<>>),     \* an error, with its message
               Outcome(TRUE, -9, FALSE, <<>>),   \* ended by a signal
               Outcome(FALSE, 0, FALSE, <<>>) }  \* the tool cannot be started

\* run_grep: TRUE when it raises.
run_grep_raises(o) == ~o.launched \/ ~(o.ret = 0 \/ ~o.err)

\* The result block main prints for a file with output.
Block(filename, lines) == [path |-> filename, lines |-> lines]

\* ----------------------------------------------------------------- state
RootLists == UNION { [1..n -> RootPaths] : n \in 1..MaxRoots }

\* The files whose modification time varies from one tree to another.
TimedFiles == {"a", "b"}

\* The state of the process when main starts, and of the tree around it.
InitRun ==
    /\ vanished = {}
    /\ modified = {}
    /\ pc = "walk"
    /\ ri = 1
    /\ stack = <<>>
    /\ file_modtimes = <<>>
    /\ canonicals = {}
    /\ permission_errors = {}
    /\ filenames_to_search = <<>>
    /\ searched = <<>>
    /\ di = 1
    /\ printed = <<>>
    /\ toolFailedAt = 0
    /\ err = NoErr
    /\ exitcode = -1
    /\ enumerated = <<>>
    /\ marked = {}
    /\ skips = {}
    /\ denied = {}
    /\ run = 1
    /\ firstList = <<>>

Init ==
    /\ roots \in RootLists
    /\ \E t \in [TimedFiles -> 1..MaxTime] :
          mtime = [f \in PhysFiles |-> IF f \in TimedFiles THEN t[f] ELSE 1]
    /\ fault \in Faults
    /\ InitRun

\* The modification times of the tree root: src/a.py 100, src/b.py 200,
\* vendor/node_modules/c.js 300.
PolicyTimes ==
    [f \in PhysFiles |->
        CASE f = "ra" -> 100
          [] f = "rb" -> 200
          [] f = "rc" -> 300
          [] OTHER -> 1]

PolicyRootLists == UNION { [1..n -> PolicyRootPaths] : n \in 1..MaxRoots }

\* The runs that exercise the exclusion by name.
InitPolicy ==
    /\ roots \in PolicyRootLists
    /\ mtime = PolicyTimes
    /\ fault \in Faults
    /\ InitRun

\* One turn of the loop of main over the root paths.
RootStep ==
    /\ pc = "walk" /\ stack = <<>> /\ ri <= Len(roots)
    /\ LET p == roots[ri] IN
         IF isfile(p)
         THEN /\ add_file(p, RootLookup(p).target)
              /\ UNCHANGED dirState
         ELSE IF isdir(p)
         THEN /\ add_directory(p, RootLookup(p).target, 0, stack)
              /\ UNCHANGED file_modtimes
         ELSE /\ Raise("CannotFind", p)
              /\ UNCHANGED << file_modtimes, dirState >>
    /\ ri' = IF pc' = "aborted" THEN ri ELSE ri + 1
    /\ UNCHANGED << inputs, env, dispatchState, runState >>

\* One turn of "for file in files" in the add_directory call on top of the
\* stack; a set of strings is iterated in no fixed order.
FileStep ==
    /\ pc = "walk" /\ stack # <<>>
    /\ LET top == stack[Len(stack)] IN
         \E e \in top.files :
            /\ IF has_required_suffix(e.name)
               THEN add_file(join(top.directory, e.name), e.target)
               ELSE UNCHANGED << file_modtimes, permission_errors, control >>
            /\ stack' = [stack EXCEPT ![Len(stack)].files = top.files \ {e}]
    /\ UNCHANGED << inputs, env, ri, canonicals, enumerated, marked, skips,
                    denied, dispatchState, runState >>

\* One turn of "for (dirname, entry) in dirs.items()": the recursive call.
DirStep ==
    /\ pc = "walk" /\ stack # <<>>
    /\ LET top == stack[Len(stack)] IN
         /\ top.files = {} /\ top.dirs # <<>>
         /\ add_directory(join(top.directory, Head(top.dirs).name),
                          Head(top.dirs).target, Head(top.dirs).ino,
                          [stack EXCEPT ![Len(stack)].dirs = Tail(top.dirs)])
    /\ UNCHANGED << inputs, env, ri, file_modtimes, dispatchState, runState >>

\* The add_directory call on top of the stack returns.
Return ==
    /\ pc = "walk" /\ stack # <<>>
    /\ stack[Len(stack)].files = {} /\ stack[Len(stack)].dirs = <<>>
    /\ stack' = SubSeq(stack, 1, Len(stack) - 1)
    /\ UNCHANGED << inputs, env, ri, file_modtimes, canonicals,
                    permission_errors, enumerated, marked, skips, denied,
                    control, dispatchState, runState >>

\* The entries that have been enumerated and not yet used: the files and
\* directories that the add_directory calls in progress still have to
\* visit.
Pending ==
    UNION { { e.target : e \in stack[i].files } \cup
            { e.target : e \in Range(stack[i].dirs) } : i \in DOMAIN stack }

\* Another process deletes a file or a directory between its enumeration
\* and its use.
Vanish ==
    /\ pc = "walk" /\ Cardinality(vanished) < MaxVanish
    /\ \E x \in (VanishCandidates \cap Pending) \ vanished :
          vanished' = vanished \cup {x}
    /\ UNCHANGED << inputs, modified, ri, file_modtimes, dirState, control,
                    dispatchState, runState >>

\* Another process writes to a registered file while the walk is running:
\* its modification time changes.  The files that may be written to are
\* registered by main only, so the write is taken between two turns of its
\* loop over the roots, where a later os.path.getmtime can still see it.
Modify ==
    /\ pc = "walk" /\ stack = <<>> /\ ri <= Len(roots)
    /\ Cardinality(modified) < MaxModify
    /\ \E f \in ModifyCandidates \ modified :
          /\ \E p \in Registered : FileAt(p) = f
          /\ \E t \in (1..MaxTime) \ {mtime[f]} :
                mtime' = [mtime EXCEPT ![f] = t]
          /\ modified' = modified \cup {f}
    /\ UNCHANGED << roots, fault, vanished, ri, file_modtimes, dirState, control,
                    dispatchState, runState >>

\* main as it would be if the ordering and the dispatch followed the walk
\* of the first root.
EndWalk_after_first_root ==
    /\ pc = "walk" /\ stack = <<>> /\ ri > 1
    /\ filenames_to_search' = Keys(sorted_desc(file_modtimes))
    /\ pc' = "dispatch"
    /\ UNCHANGED << inputs, env, ri, file_modtimes, dirState, searched, di,
                    printed, toolFailedAt, err, exitcode, runState >>

\* main after the walk: the summary is printed and the registry is ordered.
EndWalk ==
    /\ pc = "walk" /\ stack = <<>> /\ ri > Len(roots)
    /\ filenames_to_search' = Keys(sorted_desc(file_modtimes))
    /\ pc' = "dispatch"
    /\ UNCHANGED << inputs, env, ri, file_modtimes, dirState, searched, di,
                    printed, toolFailedAt, err, exitcode, runState >>

\* A search that did not run successfully, with or without matches.
ToolFailure(o) == ~o.launched \/ o.ret \notin {0, 1}

\* One turn of the dispatch loop of main: the search of one file, and the
\* printing of its result block.
Dispatch ==
    /\ pc = "dispatch" /\ di <= Len(filenames_to_search)
    /\ LET filename == filenames_to_search[di] IN
         \E o \in GrepOutcomes(FileAt(filename)) :
            /\ searched' = Append(searched, filename)
            /\ toolFailedAt' =
                   IF toolFailedAt = 0 /\ ToolFailure(o) THEN di ELSE toolFailedAt
            /\ IF run_grep_raises(o)
               THEN /\ Raise("Exception", filename)
                    /\ UNCHANGED printed
               ELSE /\ printed' = IF strip(o.out) # <<>>
                                  THEN Append(printed,
                                              Block(filename, render(strip(o.out))))
                                  ELSE printed
                    /\ UNCHANGED control
    /\ di' = di + 1
    /\ UNCHANGED << inputs, env, ri, file_modtimes, dirState,
                    filenames_to_search, runState >>

\* main returns: the process exits with status 0.
Finish ==
    /\ pc = "dispatch" /\ di > Len(filenames_to_search)
    /\ pc' = "done"
    /\ exitcode' = 0
    /\ UNCHANGED << inputs, env, ri, file_modtimes, dirState, dispatchState,
                    err, runState >>

\* The program is run once more on the same tree: a new process, whose
\* registry, visited set and failure set are empty again.
Rerun ==
    /\ pc = "done" /\ run = 1
    /\ run' = 2
    /\ firstList' = filenames_to_search
    /\ pc' = "walk"
    /\ ri' = 1
    /\ stack' = <<>>
    /\ file_modtimes' = <<>>
    /\ canonicals' = {}
    /\ permission_errors' = {}
    /\ filenames_to_search' = <<>>
    /\ searched' = <<>>
    /\ di' = 1
    /\ printed' = <<>>
    /\ toolFailedAt' = 0
    /\ err' = NoErr
    /\ exitcode' = -1
    /\ enumerated' = <<>>
    /\ marked' = {}
    /\ skips' = {}
    /\ denied' = {}
    /\ UNCHANGED << inputs, env >>

Next ==
    \/ RootStep
    \/ FileStep
    \/ DirStep
    \/ Return
    \/ Vanish
    \/ Modify
    \/ EndWalk
    \/ Dispatch
    \/ Finish

Spec == Init /\ [][Next]_vars

\* One run over a tree that no other process changes.
NextStill ==
    \/ RootStep
    \/ FileStep
    \/ DirStep
    \/ Return
    \/ EndWalk
    \/ Dispatch
    \/ Finish

SpecPolicy == InitPolicy /\ [][NextStill]_vars

\* Two runs, one after the other, over a tree that no other process changes.
NextRerun ==
    \/ RootStep
    \/ FileStep
    \/ DirStep
    \/ Return
    \/ EndWalk
    \/ Dispatch
    \/ Finish
    \/ Rerun

SpecRerun == Init /\ [][NextRerun]_vars

\* ------------------------------------------------------------ properties
\* The walk over all roots has ended (the summary line has been printed).
WalkEnded ==
    \/ pc \in {"dispatch", "done"}
    \/ pc = "aborted" /\ err.kind = "Exception"

\* C1: each physical directory is enumerated (its children listed) at most
\* once during one run, whatever paths reach it.
C1_EnumeratedAtMostOnce ==
    \A i, j \in DOMAIN enumerated : i # j => enumerated[i] # enumerated[j]

\* The eligible files that a chain of non-excluded, readable, non-symlink
\* directories reaches from the directory `directory` (physically phys).
RECURSIVE ReachFiles(_, _)
ReachFiles(directory, phys) ==
    IF \/ skipped_by_name(directory)
       \/ ~DirExists(phys)
       \/ ScanDenied(phys)
       \/ is_anaconda(classify_dirs(scandir(phys)))
    THEN {}
    ELSE { e.target : e \in { x \in classify_files(scandir(phys)) :
                                  /\ has_required_suffix(x.name)
                                  /\ ~StatDenied(x.target) } }
         \cup UNION { ReachFiles(join(directory, e.name), e.target) :
                         e \in Range(classify_dirs(scandir(phys))) }

\* The distinct files a run has to register: the files named as roots and
\* the eligible files reachable from the directories named as roots.
EligibleReachable ==
    { RootLookup(roots[i]).target : i \in { k \in DOMAIN roots : isfile(roots[k]) } }
    \cup UNION { ReachFiles(roots[i], RootLookup(roots[i]).target) :
                    i \in { k \in DOMAIN roots : isdir(roots[k]) } }

\* C2: when the walk over all roots of an unchanged tree has ended, the
\* registry holds every eligible file reachable by any path, and the number
\* of registered files is the number of distinct such files.
C2_RegistryIsReachableFiles ==
    (WalkEnded /\ vanished = {}) =>
        /\ { FileAt(p) : p \in Registered } = EligibleReachable
        /\ Cardinality(Registered) = Cardinality(EligibleReachable)

\* C3: the identity tracker reports a directory as already visited only if
\* that same physical directory was recorded earlier in the run.
C3_SkipOnlyRecorded == \A s \in skips : s.known

\* C4: the external search is invoked in descending order of modification
\* time: when it is invoked on a file, it has been invoked before on every
\* registered file of a greater modification time.
C4_DispatchDescending ==
    \A j \in DOMAIN searched :
        \A p \in Registered :
            ModtimeOf(p) > ModtimeOf(searched[j]) =>
                \E i \in 1..(j - 1) : searched[i] = p

\* C4, its case: two files of different modification times were searched.
C4_Witness ==
    /\ Len(searched) >= 2
    /\ ModtimeOf(searched[1]) > ModtimeOf(searched[2])

\* C5: a second run over the same unchanged tree with the same roots
\* produces the ordered file list of the first run.
C5_SameListEachRun ==
    (run = 2 /\ pc \in {"dispatch", "done"}) => filenames_to_search = firstList

\* C6: an access denial is never fatal to the run, also not the denial the
\* search meets on a registered file that it cannot read.
C6_AccessDenialNotFatal ==
    ~( /\ pc = "aborted"
       /\ err.kind = "Exception"
       /\ FileExists(FileAt(err.on))
       /\ Unreadable(FileAt(err.on)) )

\* C7: an entry that vanishes between its enumeration and its use does not
\* abort the run.
C7_VanishedNotFatal == ~(pc = "aborted" /\ err.kind = "FileNotFoundError")

\* C8: every outcome of the external search other than a successful run,
\* with or without matches, is fatal for the whole run.
C8_ToolFailureFatal == toolFailedAt # 0 => pc = "aborted"

\* C9: a tool invocation error on the k-th file interrupts the dispatch
\* loop: no file after the k-th is searched or rendered.
C9_ToolFailureStopsDispatch ==
    toolFailedAt # 0 =>
        /\ Len(searched) = toolFailedAt
        /\ \A b \in Range(printed) :
              \E i \in 1..(toolFailedAt - 1) : searched[i] = b.path

\* The roots that name a file.
FileRoots == { i \in DOMAIN roots : RootLookup(roots[i]).kind = "file" }

IsPrefix(d, p) == Len(d) <= Len(p) /\ SubSeq(p, 1, Len(d)) = d

\* C11: a directory whose listing is denied is recorded once, under its own
\* path, as a permission failure; no file below it is registered by the
\* walk and no failure is recorded below it; the denial does not end the
\* run, and the call returns to its caller, which goes on with the next
\* sibling or the next root.
C11_DeniedDirectoryContained ==
    /\ [](\A d \in denied :
            /\ { p \in permission_errors : IsPrefix(d, p) } = {d}
            /\ \A p \in Registered : IsPrefix(d, p) => p \in Range(roots)
            /\ \A i \in DOMAIN stack : ~IsPrefix(d, stack[i].directory)
            /\ ~(pc = "aborted" /\ err.on = d))
    /\ [][denied' # denied =>
            /\ pc' = "walk"
            /\ file_modtimes' = file_modtimes
            /\ IF stack = <<>>
               THEN stack' = <<>> /\ ri' = ri + 1
               ELSE /\ ri' = ri
                    /\ stack' = [stack EXCEPT ![Len(stack)].dirs =
                                     Tail(stack[Len(stack)].dirs)]]_vars

\* C11, its case: the listing of the root proj/src was denied, and the
\* root after it was registered and searched in a run that ended normally.
C11_Witness ==
    /\ pc = "done"
    /\ roots = << <<N_proj, N_src>>, <<N_proj, N_git, N_notes>> >>
    /\ denied = { <<N_proj, N_src>> }
    /\ permission_errors = { <<N_proj, N_src>> }
    /\ Registered = { <<N_proj, N_git, N_notes>> }
    /\ searched = << <<N_proj, N_git, N_notes>> >>

\* The registered paths that the walk of a directory reached.
WalkRegistered == Registered \ { roots[i] : i \in FileRoots }

\* A hidden name: it starts with "." and is neither "." nor "..".
HiddenName(name) == startswith_dot(name) /\ name \notin {N_dot, N_dotdot}

\* The directory that the path names is the root of a runtime
\* distribution: condabin, bin and conda-meta are directories in it.
DistributionRoot(path) ==
    {N_condabin, N_bin, N_conda_meta} \subseteq
        { e.name : e \in { x \in Range(Entries(Resolve("Dcwd", path))) :
                              x.kind = "dir" } }

\* The tree root/{.git/x.py, src/a.py (100), src/b.py (200),
\* vendor/node_modules/c.js (300)} given as the only root: the registry is
\* {root/src/a.py, root/src/b.py}, the dispatch order root/src/b.py,
\* root/src/a.py.
C12_Scenario ==
    LET a == <<N_root, N_src, N_a>>
        b == <<N_root, N_src, N_b>>
    IN  roots = << <<N_root>> >> =>
          /\ Registered \subseteq {a, b}
          /\ WalkEnded => Registered = {a, b}
          /\ pc \in {"dispatch", "done"} => filenames_to_search = <<b, a>>
          /\ \A j \in DOMAIN searched : j <= 2 /\ searched[j] = <<b, a>>[j]

\* C12 as stated: every file the walk registers has an allow-listed suffix
\* and no directory of its path is hidden, a node_modules directory, a
\* google-cloud-sdk directory or the root of a runtime distribution; and
\* the tree root gives the registry and the dispatch order of C12_Scenario.
\* (Stated for the trees without access faults.)
C12_NoFileUnderExcluded ==
    fault = NoFault =>
        /\ \A p \in WalkRegistered :
              /\ has_required_suffix(basename(p))
              /\ \A k \in 1..(Len(p) - 1) :
                    /\ ~HiddenName(p[k])
                    /\ p[k] \notin {N_node_modules, N_gcs}
                    /\ ~DistributionRoot(SubSeq(p, 1, k))
        /\ C12_Scenario

\* C12 as amended: every file the walk registers has an allow-listed
\* suffix and lies below a root directory such that every directory from
\* that root down to the file's own passed the tests made on its path as
\* given: its base name does not start with ".", its path does not end in
\* "/node_modules" or "/google-cloud-sdk", and its children do not bear the
\* signature of a runtime distribution.  The directories above the root
\* are not tested.  The tree root gives the registry and the dispatch
\* order of C12_Scenario.
C12_NoExcludedBelowRoot ==
    /\ \A p \in WalkRegistered :
          /\ has_required_suffix(basename(p))
          /\ \E i \in DOMAIN roots :
                /\ IsPrefix(roots[i], p)
                /\ \A k \in Len(roots[i])..(Len(p) - 1) :
                      /\ ~startswith_dot(p[k])
                      /\ ~(k >= 2 /\ p[k] \in {N_node_modules, N_gcs})
                      /\ ~DistributionRoot(SubSeq(p, 1, k))
    /\ C12_Scenario

\* C12, its case: the run over the tree root has ended; it met the hidden
\* directory root/.git and root/vendor/node_modules and searched
\* root/src/b.py before root/src/a.py.
C12_Witness ==
    /\ roots = << <<N_root>> >>
    /\ pc = "done"
    /\ {"Drgit", "Dnm"} \subseteq marked
    /\ searched = << <<N_root, N_src, N_b>>, <<N_root, N_src, N_a>> >>

Min(m, n) == IF m < n THEN m ELSE n

\* C13: the number of match lines rendered for a file is at most
\* max_lines, and it is the smaller of max_lines and the number of lines
\* of the file that match.  (Stated for the trees without access faults
\* that no other process changes.)
C13_RenderedLineCount ==
    (fault = NoFault /\ vanished = {}) =>
        \A b \in Range(printed) :
            /\ Len(b.lines) <= max_lines
            /\ Len(b.lines) = Min(Len(MatchingLines(FileAt(b.path))), max_lines)

\* A match line as it is to be rendered: its first display_width
\* characters and the marker when it is longer, itself when it is not.
Displayed(line) ==
    IF line.len > display_width
    THEN Rendered(Min(line.lead, display_width), display_width, TRUE)
    ELSE Rendered(line.lead, line.len, FALSE)

\* C14: in a result block that holds every match line the search wrote,
\* a match line longer than display_width is rendered as its first
\* display_width characters and "...", a line of at most display_width
\* characters is rendered as it is, and no rendered line is longer than
\* display_width + 3.  (Stated for the trees without access faults that
\* no other process changes.)
C14_RenderedLines ==
    (fault = NoFault /\ vanished = {}) =>
        \A b \in Range(printed) :
            Len(b.lines) = Len(grep_stdout(FileAt(b.path))) =>
                \A i \in DOMAIN b.lines :
                    /\ b.lines[i] = Displayed(grep_stdout(FileAt(b.path))[i])
                    /\ b.lines[i].len + (IF b.lines[i].cut THEN 3 ELSE 0)
                           <= display_width + 3

\* Some component of the path is a symbolic link.
ThroughSymlink(path) ==
    \E k \in DOMAIN path :
        /\ path[k] # N_dot
        /\ \E e \in Range(Entries(Resolve("Dcwd", SubSeq(path, 1, k - 1)))) :
              e.name = path[k] /\ e.kind = "symlink"

\* C15: symbolic links are never followed: the run enumerates no directory
\* and registers no file whose path passes through a symbolic link.
\* (Stated for the trees without access faults.)
C15_SymlinksNeverFollowed ==
    fault = NoFault =>
        /\ \A i \in DOMAIN stack : ~ThroughSymlink(stack[i].directory)
        /\ \A p \in Registered : ~ThroughSymlink(p)

\* The physical directories that have not been enumerated.
Unvisited == PhysDirs \ Range(enumerated)

\* C16: every call of add_directory that enumerates a directory strictly
\* shrinks the set of the physical directories not yet enumerated (the
\* variant by which the walk is said to terminate).  (Stated for the trees
\* without access faults that no other process changes.)
C16_EnumerationShrinksUnvisited ==
    [][(fault = NoFault /\ vanished = {} /\ enumerated' # enumerated) =>
          (Unvisited' \subseteq Unvisited /\ Unvisited' # Unvisited)]_vars

\* C17: no search is invoked while a root is still unwalked; the registry
\* does not change once the first search has started; the files are
\* searched one at a time in the dispatch order, and the result block of a
\* file is printed in the turn of the loop that searches it, before the
\* search of the next file starts.
C17_WalkThenSequentialDispatch ==
    /\ []((searched # <<>> \/ pc = "dispatch") =>
            /\ ri > Len(roots) /\ stack = <<>>
            /\ \A k \in DOMAIN searched : searched[k] = filenames_to_search[k]
            /\ \A b \in Range(printed) : b.path \in Range(searched))
    /\ [][/\ searched # <<>> => file_modtimes' = file_modtimes
          /\ searched' # searched =>
                /\ searched' = Append(searched, filenames_to_search[Len(searched) + 1])
                /\ \/ printed' = printed
                   \/ /\ Len(printed') = Len(printed) + 1
                      /\ SubSeq(printed', 1, Len(printed)) = printed
                      /\ printed'[Len(printed')].path = searched'[Len(searched')]
          /\ printed' # printed => searched' # searched]_vars

\* C17, its case: two roots were walked, then three files were searched and
\* the blocks of two of them printed, in the dispatch order.
C17_Witness ==
    /\ pc = "done"
    /\ Len(roots) = 2
    /\ Len(searched) = 3
    /\ Len(printed) = 2
    /\ printed[1].path = searched[1]
    /\ printed[2].path = searched[3]

\* C18: in every step the visited set, the registry and the set of
\* permission failures only gain members, and a record of the registry
\* keeps the modification time it was created with, also when its path is
\* registered again.  (Stated for the trees without access faults from
\* which nothing is deleted.)
C18_RecordsNeverMutated ==
    [][(fault = NoFault /\ vanished = {}) =>
          /\ canonicals \subseteq canonicals'
          /\ permission_errors \subseteq permission_errors'
          /\ \A i \in DOMAIN file_modtimes :
                i \in DOMAIN file_modtimes' /\ file_modtimes'[i] = file_modtimes[i]]_vars

\* The physical directories recorded as visited on a call that did not
\* enumerate them: excluded by name, or not listable.
RecordedNotEnumerated == marked \ Range(enumerated)

\* C19: a directory is recorded as visited before the exclusion policy and
\* the enumeration are applied to it: every directory that was enumerated,
\* or whose listing was denied, is in the visited set; and a directory that
\* was recorded without being enumerated is not enumerated later in the
\* run through any other path.  (Stated for the trees without access
\* faults that no other process changes.)
C19_RecordedBeforeExclusion ==
    /\ [](/\ Range(enumerated) \subseteq marked
          /\ \A p \in denied : Resolve("Dcwd", p) \in marked)
    /\ [][(fault = NoFault /\ vanished = {}) =>
            \A d \in RecordedNotEnumerated : d \notin Range(enumerated')]_vars

\* The roots that name a directory by a path whose base name starts with
\* ".": a hidden directory, "." or "..".
DotRoots ==
    { i \in DOMAIN roots :
        RootLookup(roots[i]).kind = "dir" /\ startswith_dot(basename(roots[i])) }

\* C20: with the skipping of hidden directories enabled, a root directory
\* whose base name starts with "." is treated as a nested one is: the call
\* of add_directory on it enumerates nothing and registers nothing, no
\* directory is ever enumerated under a path whose base name starts with
\* ".", and no file is registered under the path of such a root.
C20_DotRootNotEnumerated ==
    /\ [](skip_dotdirs =>
            /\ \A k \in DOMAIN stack : ~startswith_dot(basename(stack[k].directory))
            /\ \A i \in DotRoots :
                  /\ \A k \in DOMAIN stack : ~IsPrefix(roots[i], stack[k].directory)
                  /\ \A p \in Registered : ~IsPrefix(roots[i], p))
    /\ [][(skip_dotdirs /\ ri \in DotRoots /\ ri' # ri) =>
            /\ ri' = ri + 1
            /\ stack' = <<>>
            /\ enumerated' = enumerated
            /\ file_modtimes' = file_modtimes
            /\ permission_errors' = permission_errors
            /\ pc' = "walk"]_vars

\* C20, its case: a run given the roots "." and root/.git has ended
\* without an enumeration and with an empty registry.
C20_Witness ==
    /\ pc = "done"
    /\ Range(roots) = { <<N_dot>>, <<N_root, N_git>> }
    /\ DotRoots = DOMAIN roots
    /\ Cardinality(marked) = Len(roots)
    /\ enumerated = <<>>
    /\ file_modtimes = <<>>

====
